---------------------------- MODULE Spec2Model ----------------------------
(***************************************************************************)
(* A model of shabbyrobe/bingen: the generator's encoding of file contents *)
(* (gzipFiles, writeFilesAsBase64, writeFilesAsByteArray) and the binfs    *)
(* runtime (Config.New, Override, the three FileSystem backends and the    *)
(* override layer), with goroutines calling Open, ReadFile and Preload     *)
(* concurrently.                                                           *)
(*                                                                         *)
(* Bytes are naturals, texts are sequences of one-character strings, and   *)
(* logical paths are sequences of one-character strings, so that           *)
(* strings.TrimLeft and the codecs are computed rather than assumed.       *)
(***************************************************************************)
EXTENDS Naturals, Integers, Sequences, FiniteSets, TLC

\* ------------------------------------------------------------------ bounds

\* Largest byte value of a source file's content.
MaxByte == 1
\* Longest source file content.
MaxLen == 1
\* Goroutines calling into the filesystems.
NumThreads == 2
\* FileSystem instances allocated in one behaviour.
MaxFS == 4
\* Leading slashes a caller may put before a name.
MaxSlashes == 1

Byte == 0..MaxByte

ByteSeqs == UNION {[1..n -> Byte] : n \in 0..MaxLen}

Thread == 1..NumThreads

\* --------------------------------------------------------------- sequences

RECURSIVE SumSeq(_)
SumSeq(s) == IF s = <<>> THEN 0 ELSE Head(s) + SumSeq(Tail(s))

Drop(s, n) == SubSeq(s, n + 1, Len(s))

Take(s, n) == SubSeq(s, 1, n)

\* ------------------------------------------------------------------- gzip
\* compress/gzip, reduced to its framing: a member is a header (GzMagic), a
\* stored block (its length, then the bytes) and a trailer (a checksum of the
\* bytes). Members may follow one another (multistream).

GzMagic == 31

CrcMod == 7

Crc(b) == (SumSeq(b) + 3 * Len(b) + 1) % CrcMod

\* gzip.NewWriterLevel + Write + Close of gzipFiles.
GzipEncode(b) == <<GzMagic, Len(b)>> \o b \o <<Crc(b)>>

DecOk(b) == [ok |-> TRUE, bytes |-> b, err |-> ""]

DecErr(e) == [ok |-> FALSE, bytes |-> <<>>, err |-> e]

\* gzip.NewReader: reads the first member's header.
GzipNewReader(s) ==
    IF Len(s) = 0 THEN DecErr("EOF")
    ELSE IF s[1] # GzMagic THEN DecErr("gzip: invalid header")
    ELSE DecOk(Tail(s))

\* ioutil.ReadAll of a gzip.Reader positioned after the first header.
RECURSIVE GzipReadAll(_)
GzipReadAll(s) ==
    IF Len(s) = 0 THEN DecErr("unexpected EOF")
    ELSE LET n == s[1] IN
         IF Len(s) < n + 2 THEN DecErr("unexpected EOF")
         ELSE LET body == SubSeq(s, 2, n + 1)
                  rest == Drop(s, n + 2)
              IN IF s[n + 2] # Crc(body) THEN DecErr("gzip: invalid checksum")
                 ELSE IF rest = <<>> THEN DecOk(body)
                 ELSE LET hdr == GzipNewReader(rest) IN
                      IF ~hdr.ok THEN DecErr(hdr.err)
                      ELSE LET more == GzipReadAll(hdr.bytes) IN
                           IF ~more.ok THEN more
                           ELSE DecOk(body \o more.bytes)

Gunzip(s) ==
    LET hdr == GzipNewReader(s) IN
    IF ~hdr.ok THEN hdr ELSE GzipReadAll(hdr.bytes)

\* ----------------------------------------------------------------- base64
\* encoding/base64 at a reduced radix: a byte (below B64Radix squared) becomes
\* two characters of an eight-letter alphabet; the decoder skips newlines,
\* rejects any other character and rejects a dangling half byte.

B64Alphabet == <<"A", "B", "C", "D", "E", "F", "G", "H">>

B64Radix == 8

B64Index(c) == CHOOSE i \in 1..Len(B64Alphabet) : B64Alphabet[i] = c

B64Valid(c) == \E i \in 1..Len(B64Alphabet) : B64Alphabet[i] = c

RECURSIVE Base64Encode(_)
Base64Encode(b) ==
    IF b = <<>> THEN <<>>
    ELSE <<B64Alphabet[(Head(b) \div B64Radix) + 1],
           B64Alphabet[(Head(b) % B64Radix) + 1]>> \o Base64Encode(Tail(b))

RECURSIVE StripNewlines(_)
StripNewlines(s) ==
    IF s = <<>> THEN <<>>
    ELSE IF Head(s) = "\n" THEN StripNewlines(Tail(s))
    ELSE <<Head(s)>> \o StripNewlines(Tail(s))

RECURSIVE Base64DecodeClean(_)
Base64DecodeClean(s) ==
    IF s = <<>> THEN DecOk(<<>>)
    ELSE IF ~B64Valid(s[1]) THEN DecErr("illegal base64 data")
    ELSE IF Len(s) = 1 THEN DecErr("unexpected EOF")
    ELSE IF ~B64Valid(s[2]) THEN DecErr("illegal base64 data")
    ELSE LET v == (B64Index(s[1]) - 1) * B64Radix + (B64Index(s[2]) - 1)
             more == Base64DecodeClean(Drop(s, 2))
         IN IF ~more.ok THEN more ELSE DecOk(<<v>> \o more.bytes)

\* base64.NewDecoder(base64.StdEncoding, ...) read to the end.
Base64Decode(s) == Base64DecodeClean(StripNewlines(s))

\* wrap(s, w): a newline after every w characters.
WrapWidth == 100

RECURSIVE wrap(_, _)
wrap(s, w) ==
    IF Len(s) >= w THEN Take(s, w) \o <<"\n">> \o wrap(Drop(s, w), w)
    ELSE s

\* ------------------------------------------------------------ the generator

Modes == {"base64", "bytes"}

Configs == [Mode : Modes, Gzip : BOOLEAN]

\* Command.Run's encoding of one file: gzipFiles when -gzip > 0, then
\* writeFilesAsBase64 or writeFilesAsByteArray.
Encode(b, cfg) ==
    LET z == IF cfg.Gzip THEN GzipEncode(b) ELSE b
    IN IF cfg.Mode = "base64" THEN wrap(Base64Encode(z), WrapWidth) ELSE z

\* Payloads that are not the generator's output: cut short, or with a bad
\* first symbol. A raw uncompressed payload has no malformed form.
Malformed(p, cfg) ==
    IF cfg.Mode = "bytes" /\ ~cfg.Gzip THEN {}
    ELSE {Take(p, Len(p) - 1) : x \in {y \in {1} : Len(p) > 0}}
         \cup {<<IF cfg.Mode = "base64" THEN "!" ELSE 0>> \o Tail(p)
                  : x \in {y \in {1} : Len(p) > 0}}

\* ------------------------------------------------------------------- paths

StoreKeys == {<<"a">>, <<"b">>}

AbsentKeys == {<<"x">>}

BaseNames == StoreKeys \cup AbsentKeys

Slashes(n) == [i \in 1..n |-> "/"]

\* The names callers pass: a base name after up to MaxSlashes slashes.
CallerNames == {Slashes(n) \o k : n \in 0..MaxSlashes, k \in BaseNames}

\* strings.TrimLeft(str, "/")
RECURSIVE cleanURLPath(_)
cleanURLPath(str) ==
    IF str # <<>> /\ Head(str) = "/" THEN cleanURLPath(Tail(str)) ELSE str

\* ----------------------------------------------------------------- decoding

\* A variant of readString that drops the decoders' errors and returns what
\* was read.
readStringLenient(fileStr, withGzip) ==
    LET raw == Base64Decode(fileStr)
        out == IF ~raw.ok THEN raw
               ELSE IF withGzip THEN Gunzip(raw.bytes) ELSE raw
    IN DecOk(out.bytes)

\* The errors base64.NewDecoder, gzip.NewReader and the gzip reader's Read
\* return.
DecodeErrors ==
    {"EOF", "unexpected EOF", "gzip: invalid header", "gzip: invalid checksum",
     "illegal base64 data"}

\* readString(fileStr, withGzip): the gzip reader reads through the base64
\* decoder, so malformed text fails the read whether or not a gzip member
\* was complete before it.
readString(fileStr, withGzip) ==
    LET raw == Base64Decode(fileStr) IN
    IF ~raw.ok THEN raw
    ELSE IF withGzip THEN Gunzip(raw.bytes)
    ELSE raw

\* readBytes(fileData, withGzip)
readBytes(fileData, withGzip) ==
    IF withGzip THEN Gunzip(fileData) ELSE DecOk(fileData)

\* ------------------------------------------------------------------- values

\* What a call hands back: a file, bytes, a FileSystem, an error or a panic.
Value(kind, err, name, bytes, fs, src) ==
    [kind |-> kind, err |-> err, name |-> name, size |-> Len(bytes),
     data |-> bytes, fs |-> fs, src |-> src]

\* &file{name, size, rdr: bytes.NewReader(fileData)}
File(name, bytes) == Value("file", "", name, bytes, 0, "embedded")

\* The *os.File of os.Open.
RealFile(name, bytes) == Value("file", "", name, bytes, 0, "disk")

Err(e) == Value("err", e, <<>>, <<>>, 0, "")

Panic(e) == Value("panic", e, <<>>, <<>>, 0, "")

Bytes(b) == Value("bytes", "", <<>>, b, 0, "")

FSRef(id) == Value("fs", "", <<>>, <<>>, id, "")

NoValue == Value("none", "", <<>>, <<>>, 0, "")

ErrNotExist == "file does not exist"

ErrPermission == "permission denied"

ErrNilMap == "assignment to entry in nil map"

\* readFile's tail: ioutil.ReadAll of the opened file, or Open's error.
readAll(v) == IF v.kind = "file" THEN Bytes(v.data) ELSE v

\* ---------------------------------------------------------------- instances

EmptyMap == <<>>

Put(m, k, v) == [x \in DOMAIN m \cup {k} |-> IF x = k THEN v ELSE m[x]]

Instance(kind, cfg, data, path, inner, from) ==
    [kind |-> kind, config |-> cfg, data |-> data,
     loadedNil |-> TRUE, loaded |-> EmptyMap, lock |-> 0,
     path |-> path, inner |-> inner, from |-> from]

NoConfig == [Mode |-> "", Gzip |-> FALSE]

\* Config.New: the literal sets config and data only, so loaded is a nil map.
ConfigNew(c, data) ==
    IF c.Mode = "base64" THEN Instance("stringLazy", c, data, "", 0, 0)
    ELSE IF c.Gzip THEN Instance("byteLazy", c, data, "", 0, 0)
    ELSE Instance("byte", c, data, "", 0, 0)

\* &byteFileSystem{config: fs.config, data: out}; from is the receiver of the
\* Preload that built it (history, not a field of the struct).
ByteFileSystem(cfg, out, from) == Instance("byte", cfg, out, "", 0, from)

\* &overrideFileSystem{path, fs}
OverrideFileSystem(path, inner) ==
    Instance("override", NoConfig, EmptyMap, path, inner, 0)

Lazy(kind) == kind \in {"byteLazy", "stringLazy"}

\* -------------------------------------------------------------------- state

\* The directory paths a caller may hand to Override, and what os.Stat finds.
OverridePaths == {"dir", "afile", "nodir"}

\* The names that may exist as real files under the directory "dir".
DiskNames == {<<"a">>}

\* The content of every real file: no embedded file has it.
RealContent == <<MaxByte + 1>>

VARIABLES
    config,       \* the generated binfs.Config: Mode and Gzip
    orig,         \* the source bytes the generator read, per logical path
    heap,         \* the FileSystem instances, by address 1..Len(heap)
    dirs,         \* os.Stat of each override path: "dir", "file" or "missing"
    files,        \* each real file under "dir": "absent", "file" or "denied"
    pc,           \* each goroutine's position
    frame,        \* each goroutine's call: its arguments and locals
    ret,          \* each goroutine's last call and what it returned, once finished
    handles,      \* the files a caller holds open, by the variable holding them
    last,         \* the last operation on a held file and what it returned
    rewind,       \* how far a held file is into read, seek to 0, read again
    gen           \* the generator's run: its arguments, inputs, names and files

vars == <<config, orig, heap, dirs, files, pc, frame, ret, handles, last, rewind,
         gen>>

fileVars == <<handles, last, rewind>>

fsVars == <<config, orig, heap, dirs, files, pc, frame, ret>>

NoFrame ==
    [op |-> "none", recv |-> 0, fs |-> 0, via |-> 0, arg |-> <<>>,
     name |-> <<>>, fileData |-> <<>>, out |-> EmptyMap, todo |-> {},
     inner |-> FALSE, real |-> "", decodes |-> 0, overlap |-> FALSE]

\* History kept with a call: decodes counts the runs of the decode routine
\* (the gzip reader of byteLazyFileSystem.Open, readString, readBytes) the
\* call has made; overlap tells that another goroutine's Open of the same
\* name on the same instance was in progress during the call; inner that an
\* override layer called its inner backend; real what the disk held.
NoRet ==
    [op |-> "none", recv |-> 0, fs |-> 0, via |-> 0, arg |-> <<>>,
     name |-> <<>>, inner |-> FALSE, real |-> "", decodes |-> 0,
     overlap |-> FALSE, res |-> NoValue]

\* The variables of a caller that hold opened files.
Handles == {"h1", "h2"}

\* No file: the variable is nil.
NoHandle == [open |-> FALSE, name |-> <<>>, size |-> 0, s |-> <<>>, i |-> 0]

\* &file{name, size, rdr: bytes.NewReader(fileData)}: the reader's slice s
\* and its cursor i.
NewFile(v) ==
    [open |-> TRUE, name |-> v.name, size |-> v.size, s |-> v.data, i |-> 0]

NoOp ==
    [h |-> "", op |-> "none", arg |-> 0, whence |-> 0, from |-> 0,
     out |-> <<>>, pos |-> 0, err |-> ""]

NoRewind == [h |-> "", stage |-> "none", k |-> 0, first |-> <<>>]

\* The generator before Command.Run has read its arguments.
NoGen ==
    [stage |-> "start", args |-> <<>>, inputs |-> <<>>, names |-> <<>>,
     files |-> EmptyMap, err |-> ""]

NoFilesHeld ==
    /\ handles = [h \in Handles |-> NoHandle]
    /\ last = NoOp
    /\ rewind = NoRewind

\* The payload stores a Config may carry: the generator's output for orig,
\* with any entries replaced by malformed payloads.
Stores(o, cfg) ==
    {d \in [StoreKeys -> UNION {{Encode(o[k], cfg)} \cup Malformed(Encode(o[k], cfg), cfg)
                                  : k \in StoreKeys}] :
        \A k \in StoreKeys :
            d[k] \in {Encode(o[k], cfg)} \cup Malformed(Encode(o[k], cfg), cfg)}

Init ==
    /\ config \in Configs
    /\ orig \in [StoreKeys -> ByteSeqs]
    /\ \E d \in Stores(orig, config) : heap = <<ConfigNew(config, d)>>
    /\ dirs = [p \in OverridePaths |->
                 IF p = "dir" THEN "dir" ELSE IF p = "afile" THEN "file" ELSE "missing"]
    /\ files \in [DiskNames -> {"absent", "file", "denied"}]
    /\ pc = [t \in Thread |-> "idle"]
    /\ frame = [t \in Thread |-> NoFrame]
    /\ ret = [t \in Thread |-> NoRet]
    /\ NoFilesHeld
    /\ gen = NoGen

\* ------------------------------------------------------------------ helpers

Unlock(h, f) == [h EXCEPT ![f].lock = 0]

\* The goroutine's call returns v: readFile drains the file first.
Return(t, fr, v) ==
    /\ ret' = [ret EXCEPT ![t] =
                 [op |-> fr.op, recv |-> fr.recv, fs |-> fr.fs, via |-> fr.via,
                  arg |-> fr.arg, name |-> fr.name, inner |-> fr.inner,
                  real |-> fr.real, decodes |-> fr.decodes,
                  overlap |-> fr.overlap,
                  res |-> IF fr.op = "ReadFile" THEN readAll(v) ELSE v]]
    /\ pc' = [pc EXCEPT ![t] = "idle"]
    /\ frame' = [frame EXCEPT ![t] = NoFrame]

\* Instances a Preload on f allocates: the eager backend of a lazy one, and
\* the fresh layer of an override.
RECURSIVE Need(_, _)
Need(h, f) ==
    IF h[f].kind = "override" THEN 1 + Need(h, h[f].inner)
    ELSE IF h[f].kind = "byte" THEN 0
    ELSE 1

Reserved ==
    LET n[S \in SUBSET Thread] ==
            IF S = {} THEN 0
            ELSE LET t == CHOOSE x \in S : TRUE
                 IN (IF frame[t].op = "Preload" THEN Need(heap, frame[t].recv) ELSE 0)
                    + n[S \ {t}]
    IN n[Thread]

\* A variant of StatError without the IsDir test.
StatErrorNoDirTest(d, path) ==
    IF d[path] = "missing" THEN ErrNotExist ELSE ""

\* os.Stat(path) then the directory test of Override.
StatError(d, path) ==
    IF d[path] = "missing" THEN ErrNotExist
    ELSE IF d[path] # "dir" THEN "binfs: override path doesn't exist"
    ELSE ""

\* A variant of Override without the type switch on fs.
OverrideNoTypeSwitch(path, f, h, d) ==
    IF StatError(d, path) # "" THEN [res |-> Err(StatError(d, path)), heap |-> h]
    ELSE [res |-> FSRef(Len(h) + 1),
          heap |-> Append(h, OverrideFileSystem(path, f))]

\* Override(path, fs): the value returned and the heap after it.
Override(path, f, h, d) ==
    IF h[f].kind = "override" THEN [res |-> FSRef(f), heap |-> h]
    ELSE IF StatError(d, path) # "" THEN [res |-> Err(StatError(d, path)), heap |-> h]
    ELSE [res |-> FSRef(Len(h) + 1),
          heap |-> Append(h, OverrideFileSystem(path, f))]

\* os.Open(filepath.Join(fs.path, pth)): Join drops the name's leading slashes.
RealOpen(path, name) ==
    IF dirs[path] # "dir" THEN "absent"
    ELSE IF cleanURLPath(name) \in DiskNames THEN files[cleanURLPath(name)]
    ELSE "absent"

\* -------------------------------------------------------------------- calls

\* Goroutine u is inside an Open or ReadFile of name n on instance f.
Overlaps(u, f, n) ==
    /\ pc[u] # "idle"
    /\ frame[u].op \in {"Open", "ReadFile"}
    /\ frame[u].recv = f
    /\ cleanURLPath(frame[u].arg) = cleanURLPath(n)

\* A goroutine calls fs.Open(name) or fs.ReadFile(name).
CallOpen(t, f, n, op) ==
    /\ pc[t] = "idle"
    /\ f \in 1..Len(heap)
    /\ frame' = [u \in Thread |->
                   IF u = t
                   THEN [NoFrame EXCEPT !.op = op, !.recv = f, !.fs = f,
                                        !.arg = n, !.name = n,
                                        !.overlap = \E v \in Thread \ {t} :
                                                        Overlaps(v, f, n)]
                   ELSE IF Overlaps(u, f, n)
                   THEN [frame[u] EXCEPT !.overlap = TRUE]
                   ELSE frame[u]]
    /\ pc' = [pc EXCEPT ![t] = "open"]
    /\ ret' = [ret EXCEPT ![t] = NoRet]
    /\ UNCHANGED <<gen, fileVars, config, orig, heap, dirs, files>>

\* A goroutine calls fs.Preload().
CallPreload(t, f) ==
    /\ pc[t] = "idle"
    /\ f \in 1..Len(heap)
    /\ Len(heap) + Reserved + Need(heap, f) <= MaxFS
    /\ frame' = [frame EXCEPT ![t] =
                   [NoFrame EXCEPT !.op = "Preload", !.recv = f, !.fs = f]]
    /\ pc' = [pc EXCEPT ![t] = "preload"]
    /\ ret' = [ret EXCEPT ![t] = NoRet]
    /\ UNCHANGED <<gen, fileVars, config, orig, heap, dirs, files>>

\* A goroutine calls Override(path, fs).
CallOverride(t, path, f) ==
    /\ pc[t] = "idle"
    /\ f \in 1..Len(heap)
    /\ Len(heap) + Reserved + 1 <= MaxFS
    /\ LET r == Override(path, f, heap, dirs)
           fr == [NoFrame EXCEPT !.op = "Override", !.recv = f, !.fs = f,
                                 !.arg = <<path>>, !.real = dirs[path]]
       IN /\ heap' = r.heap
          /\ Return(t, fr, r.res)
    /\ UNCHANGED <<gen, fileVars, config, orig, dirs, files>>

\* ------------------------------------------------------- overrideFileSystem

\* A variant of OverrideBranch that asks the inner backend first.
OverrideBranchInnerFirst(e) == "inner"

\* A variant of OverrideBranch that falls through on every error of os.Open.
OverrideBranchAnyError(e) == IF e = "file" THEN "real" ELSE "inner"

\* The three ways of overrideFileSystem.Open, by what os.Open found:
\* os.IsNotExist(err), err == nil, any other error.
OverrideBranch(e) ==
    IF e = "absent" THEN "inner" ELSE IF e = "file" THEN "real" ELSE "error"

\* overrideFileSystem.Open
OverrideOpen(t) ==
    /\ pc[t] = "open"
    /\ heap[frame[t].fs].kind = "override"
    /\ LET fs == heap[frame[t].fs]
           e == RealOpen(fs.path, frame[t].name)
           fr == [frame[t] EXCEPT !.real = e, !.via = frame[t].fs]
       IN IF OverrideBranch(e) = "inner"
          THEN /\ frame' = [frame EXCEPT ![t] =
                              [fr EXCEPT !.fs = fs.inner, !.inner = TRUE]]
               /\ UNCHANGED <<pc, ret>>
          ELSE IF OverrideBranch(e) = "real"
          THEN Return(t, fr, RealFile(cleanURLPath(frame[t].name), RealContent))
          ELSE Return(t, fr, Err(ErrPermission))
    /\ UNCHANGED <<gen, fileVars, config, orig, heap, dirs, files>>

\* overrideFileSystem.Preload, up to its call of fs.inner.Preload()
OverridePreload(t) ==
    /\ pc[t] = "preload"
    /\ heap[frame[t].fs].kind = "override"
    /\ frame' = [frame EXCEPT ![t].via = frame[t].fs,
                              ![t].fs = heap[frame[t].fs].inner,
                              ![t].inner = TRUE]
    /\ UNCHANGED <<gen, fileVars, config, orig, heap, dirs, files, pc, ret>>

\* A variant of PreloadReturn that hands back the inner backend's result
\* without wrapping it.
PreloadReturnUnwrapped(t, v, h) ==
    /\ heap' = h
    /\ Return(t, frame[t], v)

\* A Preload returns v with the heap h: overrideFileSystem.Preload, when it
\* made the call, returns the error or Override(fs.path, preloaded).
PreloadReturn(t, v, h) ==
    LET rewrap == frame[t].via # 0 /\ v.kind = "fs"
        fr == IF rewrap
              THEN [frame[t] EXCEPT !.real = dirs[heap[frame[t].via].path]]
              ELSE frame[t]
        r == IF rewrap
             THEN Override(heap[fr.via].path, v.fs, h, dirs)
             ELSE [res |-> v, heap |-> h]
    IN /\ heap' = r.heap
       /\ Return(t, fr, r.res)

\* ----------------------------------------------------------- byteFileSystem

\* What byteFileSystem.Open returns for a cleaned name.
ByteOpenResult(fs, name) ==
    IF name \notin DOMAIN fs.data THEN Err(ErrNotExist)
    ELSE File(name, fs.data[name])

\* byteFileSystem.Open
ByteOpen(t) ==
    /\ pc[t] = "open"
    /\ heap[frame[t].fs].kind = "byte"
    /\ LET fs == heap[frame[t].fs]
           name == cleanURLPath(frame[t].name)
           fr == [frame[t] EXCEPT !.name = name]
       IN Return(t, fr, ByteOpenResult(fs, name))
    /\ UNCHANGED <<gen, fileVars, config, orig, heap, dirs, files>>

\* A variant of BytePreload that returns a copy of the receiver.
BytePreloadCopy(t) ==
    /\ pc[t] = "preload"
    /\ heap[frame[t].fs].kind = "byte"
    /\ LET fs == heap[frame[t].fs]
           h == Append(heap, ByteFileSystem(fs.config, fs.data, frame[t].fs))
       IN PreloadReturn(t, FSRef(Len(h)), h)
    /\ UNCHANGED <<gen, fileVars, config, orig, dirs, files>>

\* byteFileSystem.Preload
BytePreload(t) ==
    /\ pc[t] = "preload"
    /\ heap[frame[t].fs].kind = "byte"
    /\ PreloadReturn(t, FSRef(frame[t].fs), heap)
    /\ UNCHANGED <<gen, fileVars, config, orig, dirs, files>>

\* --------------------------------- byteLazyFileSystem, stringLazyFileSystem

\* A variant of LazyOpenLock that does not wait for the lock.
LazyOpenNoWait(t) ==
    /\ pc[t] = "open"
    /\ Lazy(heap[frame[t].fs].kind)
    /\ heap' = [heap EXCEPT ![frame[t].fs].lock = t]
    /\ frame' = [frame EXCEPT ![t].name = cleanURLPath(frame[t].name)]
    /\ pc' = [pc EXCEPT ![t] = "lookup"]
    /\ UNCHANGED <<gen, fileVars, config, orig, dirs, files, ret>>

\* Open of a lazy backend: cleanURLPath, then fs.lock.Lock().
LazyOpenLock(t) ==
    /\ pc[t] = "open"
    /\ Lazy(heap[frame[t].fs].kind)
    /\ heap[frame[t].fs].lock = 0
    /\ heap' = [heap EXCEPT ![frame[t].fs].lock = t]
    /\ frame' = [frame EXCEPT ![t].name = cleanURLPath(frame[t].name)]
    /\ pc' = [pc EXCEPT ![t] = "lookup"]
    /\ UNCHANGED <<gen, fileVars, config, orig, dirs, files, ret>>

\* byteLazyFileSystem.Open: fileData, ok := fs.loaded[name]. On a miss
\* fileData is the zero value, and it is what the gzip reader is given.
ByteLazyLookup(t) ==
    /\ pc[t] = "lookup"
    /\ heap[frame[t].fs].kind = "byteLazy"
    /\ LET fs == heap[frame[t].fs]
           name == frame[t].name
       IN IF name \in DOMAIN fs.loaded
          THEN /\ heap' = Unlock(heap, frame[t].fs)
               /\ Return(t, frame[t], File(name, fs.loaded[name]))
          ELSE /\ frame' = [frame EXCEPT ![t].fileData = <<>>]
               /\ pc' = [pc EXCEPT ![t] = "decode"]
               /\ UNCHANGED <<heap, ret>>
    /\ UNCHANGED <<gen, fileVars, config, orig, dirs, files>>

\* A variant of ByteLazyDecode whose error return leaves the lock held.
ByteLazyDecodeKeepLock(t) ==
    /\ pc[t] = "decode"
    /\ heap[frame[t].fs].kind = "byteLazy"
    /\ LET r == Gunzip(frame[t].fileData)
           fr == [frame[t] EXCEPT !.decodes = @ + 1]
       IN IF ~r.ok
          THEN /\ UNCHANGED heap
               /\ Return(t, fr, Err(r.err))
          ELSE /\ frame' = [frame EXCEPT ![t] = [fr EXCEPT !.fileData = r.bytes]]
               /\ pc' = [pc EXCEPT ![t] = "store"]
               /\ UNCHANGED <<heap, ret>>
    /\ UNCHANGED <<gen, fileVars, config, orig, dirs, files>>

\* byteLazyFileSystem.Open: gzip.NewReader(bytes.NewReader(fileData)) and
\* ioutil.ReadAll(decoder).
ByteLazyDecode(t) ==
    /\ pc[t] = "decode"
    /\ heap[frame[t].fs].kind = "byteLazy"
    /\ LET r == Gunzip(frame[t].fileData)
           fr == [frame[t] EXCEPT !.decodes = @ + 1]
       IN IF ~r.ok
          THEN /\ heap' = Unlock(heap, frame[t].fs)
               /\ Return(t, fr, Err(r.err))
          ELSE /\ frame' = [frame EXCEPT ![t] = [fr EXCEPT !.fileData = r.bytes]]
               /\ pc' = [pc EXCEPT ![t] = "store"]
               /\ UNCHANGED <<heap, ret>>
    /\ UNCHANGED <<gen, fileVars, config, orig, dirs, files>>

\* stringLazyFileSystem.Open: the cache lookup, then the store lookup.
StringLazyLookup(t) ==
    /\ pc[t] = "lookup"
    /\ heap[frame[t].fs].kind = "stringLazy"
    /\ LET fs == heap[frame[t].fs]
           name == frame[t].name
       IN IF name \in DOMAIN fs.loaded
          THEN /\ heap' = Unlock(heap, frame[t].fs)
               /\ Return(t, frame[t], File(name, fs.loaded[name]))
          ELSE IF name \notin DOMAIN fs.data
          THEN /\ heap' = Unlock(heap, frame[t].fs)
               /\ Return(t, frame[t], Err(ErrNotExist))
          ELSE /\ pc' = [pc EXCEPT ![t] = "decode"]
               /\ UNCHANGED <<heap, frame, ret>>
    /\ UNCHANGED <<gen, fileVars, config, orig, dirs, files>>

\* A variant of StringLazyDecode that caches the bytes read before a decode
\* error.
StringLazyDecodeCacheError(t) ==
    /\ pc[t] = "decode"
    /\ heap[frame[t].fs].kind = "stringLazy"
    /\ LET fs == heap[frame[t].fs]
           r == readString(fs.data[frame[t].name], fs.config.Gzip)
           fr == [frame[t] EXCEPT !.decodes = @ + 1]
       IN IF ~r.ok
          THEN /\ heap' = [heap EXCEPT ![frame[t].fs] =
                             [fs EXCEPT !.lock = 0, !.loadedNil = FALSE,
                                        !.loaded = Put(fs.loaded, frame[t].name, <<>>)]]
               /\ Return(t, fr, Err(r.err))
          ELSE /\ frame' = [frame EXCEPT ![t] = [fr EXCEPT !.fileData = r.bytes]]
               /\ pc' = [pc EXCEPT ![t] = "store"]
               /\ UNCHANGED <<heap, ret>>
    /\ UNCHANGED <<gen, fileVars, config, orig, dirs, files>>

\* stringLazyFileSystem.Open: readString(fileStr, fs.config.Gzip)
StringLazyDecode(t) ==
    /\ pc[t] = "decode"
    /\ heap[frame[t].fs].kind = "stringLazy"
    /\ LET fs == heap[frame[t].fs]
           r == readString(fs.data[frame[t].name], fs.config.Gzip)
           fr == [frame[t] EXCEPT !.decodes = @ + 1]
       IN IF ~r.ok
          THEN /\ heap' = Unlock(heap, frame[t].fs)
               /\ Return(t, fr, Err(r.err))
          ELSE /\ frame' = [frame EXCEPT ![t] = [fr EXCEPT !.fileData = r.bytes]]
               /\ pc' = [pc EXCEPT ![t] = "store"]
               /\ UNCHANGED <<heap, ret>>
    /\ UNCHANGED <<gen, fileVars, config, orig, dirs, files>>

\* fs.loaded[name] = fileData, then the file is returned; the deferred
\* Unlock runs on the way out, also when the assignment panics.
StoreLoaded(fs, name, fileData) ==
    IF fs.loadedNil
    THEN [fs |-> fs, res |-> Panic(ErrNilMap)]
    ELSE [fs |-> [fs EXCEPT !.loaded = Put(fs.loaded, name, fileData)],
          res |-> File(name, fileData)]

LazyStore(t) ==
    /\ pc[t] = "store"
    /\ LET r == StoreLoaded(heap[frame[t].fs], frame[t].name, frame[t].fileData)
       IN /\ heap' = [heap EXCEPT ![frame[t].fs] = [r.fs EXCEPT !.lock = 0]]
          /\ Return(t, frame[t], r.res)
    /\ UNCHANGED <<gen, fileVars, config, orig, dirs, files>>

\* What byteLazyFileSystem.Open returns for a cleaned name when it runs from
\* Lock to Unlock on the instance fs.
ByteLazyOpenResult(fs, name) ==
    IF name \in DOMAIN fs.loaded THEN File(name, fs.loaded[name])
    ELSE LET r == Gunzip(<<>>)
         IN IF ~r.ok THEN Err(r.err) ELSE StoreLoaded(fs, name, r.bytes).res

\* What stringLazyFileSystem.Open returns for a cleaned name when it runs
\* from Lock to Unlock on the instance fs.
StringLazyOpenResult(fs, name) ==
    IF name \in DOMAIN fs.loaded THEN File(name, fs.loaded[name])
    ELSE IF name \notin DOMAIN fs.data THEN Err(ErrNotExist)
    ELSE LET r == readString(fs.data[name], fs.config.Gzip)
         IN IF ~r.ok THEN Err(r.err) ELSE StoreLoaded(fs, name, r.bytes).res

\* fs.Open(arg) of a backend, as its caller sees it.
OpenResult(fs, arg) ==
    IF fs.kind = "byte" THEN ByteOpenResult(fs, cleanURLPath(arg))
    ELSE IF fs.kind = "byteLazy" THEN ByteLazyOpenResult(fs, cleanURLPath(arg))
    ELSE StringLazyOpenResult(fs, cleanURLPath(arg))

\* Preload of a lazy backend: fs.lock.Lock() and the empty out map.
LazyPreloadLock(t) ==
    /\ pc[t] = "preload"
    /\ Lazy(heap[frame[t].fs].kind)
    /\ heap[frame[t].fs].lock = 0
    /\ heap' = [heap EXCEPT ![frame[t].fs].lock = t]
    /\ frame' = [frame EXCEPT ![t].out = EmptyMap,
                              ![t].todo = DOMAIN heap[frame[t].fs].data]
    /\ pc' = [pc EXCEPT ![t] = "range"]
    /\ UNCHANGED <<gen, fileVars, config, orig, dirs, files, ret>>

\* The decode of one entry in Preload's loop.
PreloadDecode(fs, payload) ==
    IF fs.kind = "stringLazy" THEN readString(payload, fs.config.Gzip)
    ELSE readBytes(payload, fs.config.Gzip)

\* A variant of LazyPreloadRange that skips the entries that do not decode.
LazyPreloadRangeSkip(t) ==
    /\ pc[t] = "range"
    /\ \E k \in frame[t].todo :
         LET fs == heap[frame[t].fs]
             r == PreloadDecode(fs, fs.data[k])
         IN /\ frame' = [frame EXCEPT ![t].out = IF r.ok THEN Put(frame[t].out, k, r.bytes)
                                                 ELSE frame[t].out,
                                      ![t].todo = frame[t].todo \ {k},
                                      ![t].decodes = @ + 1]
            /\ UNCHANGED <<heap, pc, ret>>
    /\ UNCHANGED <<gen, fileVars, config, orig, dirs, files>>

\* One iteration of Preload's range over fs.data, in any order.
LazyPreloadRange(t) ==
    /\ pc[t] = "range"
    /\ \E k \in frame[t].todo :
         LET fs == heap[frame[t].fs]
             r == PreloadDecode(fs, fs.data[k])
         IN IF ~r.ok
            THEN PreloadReturn(t, Err(r.err), Unlock(heap, frame[t].fs))
            ELSE /\ frame' = [frame EXCEPT ![t].out = Put(frame[t].out, k, r.bytes),
                                           ![t].todo = frame[t].todo \ {k},
                                           ![t].decodes = @ + 1]
                 /\ UNCHANGED <<heap, pc, ret>>
    /\ UNCHANGED <<gen, fileVars, config, orig, dirs, files>>

\* The instance Preload returns after its loop.
PreloadResult(fs, out, from) == ByteFileSystem(fs.config, out, from)

\* A variant of LazyPreloadDone that fills the receiver's cache and returns
\* the receiver.
LazyPreloadDoneInPlace(t) ==
    /\ pc[t] = "range"
    /\ frame[t].todo = {}
    /\ LET f == frame[t].fs
           h == [heap EXCEPT ![f].lock = 0, ![f].loadedNil = FALSE,
                             ![f].loaded = frame[t].out]
       IN PreloadReturn(t, FSRef(f), h)
    /\ UNCHANGED <<gen, fileVars, config, orig, dirs, files>>

\* The end of Preload's loop: the new byteFileSystem is returned.
LazyPreloadDone(t) ==
    /\ pc[t] = "range"
    /\ frame[t].todo = {}
    /\ LET fs == heap[frame[t].fs]
           h == Append(Unlock(heap, frame[t].fs),
                       PreloadResult(fs, frame[t].out, frame[t].fs))
       IN PreloadReturn(t, FSRef(Len(h)), h)
    /\ UNCHANGED <<gen, fileVars, config, orig, dirs, files>>

\* -------------------------------------------------------------- environment

\* A real file under "dir" is created, removed or made unreadable.
FileChange(n, e) ==
    /\ files[n] # e
    /\ files' = [files EXCEPT ![n] = e]
    /\ UNCHANGED <<gen, fileVars, config, orig, heap, dirs, pc, frame, ret>>

\* os.RemoveAll("dir") or os.Mkdir("dir") by another process; the files under
\* it are gone with it.
DirChange ==
    /\ dirs' = [dirs EXCEPT !["dir"] = IF @ = "dir" THEN "missing" ELSE "dir"]
    /\ files' = [n \in DiskNames |-> "absent"]
    /\ UNCHANGED <<gen, fileVars, config, orig, heap, pc, frame, ret>>

\* --------------------------------------------------------------------- file
\* The file of Open: Read and Seek go to its bytes.Reader, Close does nothing.

\* Longest content of a file that is read and sought.
MaxFileLen == 2

FileContents == UNION {[1..n -> Byte] : n \in 0..MaxFileLen}

\* io.SeekStart, io.SeekCurrent, io.SeekEnd, and a whence that is none of them.
SeekStart == 0

SeekCurrent == 1

SeekEnd == 2

SeekInvalid == 3

Whences == {SeekStart, SeekCurrent, SeekEnd, SeekInvalid}

\* The offsets callers seek by.
Offsets == {0 - 1, 0, 1}

Min(a, b) == IF a <= b THEN a ELSE b

\* file.Read(p) with len(p) = k: bytes.Reader.Read returns io.EOF at the end
\* of the slice, and otherwise copies what is left, up to k bytes.
ReaderRead(f, k) ==
    IF f.i >= Len(f.s) THEN [i |-> f.i, out |-> <<>>, err |-> "EOF"]
    ELSE LET n == Min(k, Len(f.s) - f.i)
         IN [i |-> f.i + n, out |-> SubSeq(f.s, f.i + 1, f.i + n), err |-> ""]

\* A variant of ReaderSeek that takes every offset as relative to the cursor.
ReaderSeekRelative(f, offset, whence) ==
    LET abs == f.i + offset
    IN IF abs < 0 THEN [i |-> f.i, pos |-> 0, err |-> "bytes.Reader.Seek: negative position"]
       ELSE [i |-> abs, pos |-> abs, err |-> ""]

\* file.Seek(offset, whence): bytes.Reader.Seek.
ReaderSeek(f, offset, whence) ==
    LET abs == IF whence = SeekStart THEN offset
               ELSE IF whence = SeekCurrent THEN f.i + offset
               ELSE Len(f.s) + offset
    IN IF whence \notin {SeekStart, SeekCurrent, SeekEnd}
       THEN [i |-> f.i, pos |-> 0, err |-> "bytes.Reader.Seek: invalid whence"]
       ELSE IF abs < 0
       THEN [i |-> f.i, pos |-> 0, err |-> "bytes.Reader.Seek: negative position"]
       ELSE [i |-> abs, pos |-> abs, err |-> ""]

\* h, err := fs.Open(n) on an eager backend, the file kept in h.
FileOpen(h, f, n) ==
    /\ f \in 1..Len(heap)
    /\ heap[f].kind = "byte"
    /\ LET v == ByteOpenResult(heap[f], cleanURLPath(n))
       IN /\ v.kind = "file"
          /\ handles' = [handles EXCEPT ![h] = NewFile(v)]
          /\ last' = [NoOp EXCEPT !.h = h, !.op = "Open"]
          /\ rewind' = [NoRewind EXCEPT !.h = h, !.stage = "fresh"]
    /\ UNCHANGED <<gen, fsVars>>

\* A variant of FileRead where the files of one path share a reader.
FileReadShared(h, k) ==
    /\ handles[h].open
    /\ LET r == ReaderRead(handles[h], k)
       IN /\ handles' = [g \in Handles |->
                           IF handles[g].open /\ handles[g].name = handles[h].name
                           THEN [handles[g] EXCEPT !.i = r.i]
                           ELSE handles[g]]
          /\ last' = [NoOp EXCEPT !.h = h, !.op = "Read", !.arg = k,
                                  !.from = handles[h].i, !.out = r.out,
                                  !.pos = Len(r.out), !.err = r.err]
          /\ rewind' = [NoRewind EXCEPT !.h = h, !.stage = "other"]
    /\ UNCHANGED <<gen, fsVars>>

\* h.Read(p) with len(p) = k.
FileRead(h, k) ==
    /\ handles[h].open
    /\ LET r == ReaderRead(handles[h], k)
       IN /\ handles' = [handles EXCEPT ![h].i = r.i]
          /\ last' = [NoOp EXCEPT !.h = h, !.op = "Read", !.arg = k,
                                  !.from = handles[h].i, !.out = r.out,
                                  !.pos = Len(r.out), !.err = r.err]
          /\ rewind' =
               IF rewind.h = h /\ rewind.stage = "fresh"
               THEN [h |-> h, stage |-> "read", k |-> k, first |-> r.out]
               ELSE IF rewind.h = h /\ rewind.stage = "rewound" /\ rewind.k = k
               THEN [rewind EXCEPT !.stage = "reread"]
               ELSE [NoRewind EXCEPT !.h = h, !.stage = "other"]
    /\ UNCHANGED <<gen, fsVars>>

\* h.Seek(offset, whence); the cursor is kept within MaxFileLen + 1.
FileSeek(h, offset, whence) ==
    /\ handles[h].open
    /\ LET r == ReaderSeek(handles[h], offset, whence)
       IN /\ r.i <= MaxFileLen + 1
          /\ handles' = [handles EXCEPT ![h].i = r.i]
          /\ last' = [NoOp EXCEPT !.h = h, !.op = "Seek", !.arg = offset,
                                  !.whence = whence, !.from = handles[h].i,
                                  !.pos = r.pos, !.err = r.err]
          /\ rewind' =
               IF /\ rewind.h = h /\ rewind.stage = "read"
                  /\ offset = 0 /\ whence = SeekStart
               THEN [rewind EXCEPT !.stage = "rewound"]
               ELSE [NoRewind EXCEPT !.h = h, !.stage = "other"]
    /\ UNCHANGED <<gen, fsVars>>

\* h.Close(): return nil.
FileClose(h) ==
    /\ handles[h].open
    /\ last' = [NoOp EXCEPT !.h = h, !.op = "Close"]
    /\ rewind' = [NoRewind EXCEPT !.h = h, !.stage = "other"]
    /\ UNCHANGED <<handles, gen, fsVars>>

\* ---------------------------------------------------------------- generator

\* Most inputs on a command line, and the largest strip count given.
MaxInputs == 2

MaxStrip == 2

\* The bytes a path or an argument is written with, in byte order.
Chars ==
    <<"+", "-", "/", "0", "1", "2", "3", "4", "5", "6", "7", "8", "9", ":",
      "a", "b", "c", "s", "x">>

CharRank(c) == CHOOSE i \in 1..Len(Chars) : Chars[i] = c

Digits == {"0", "1", "2", "3", "4", "5", "6", "7", "8", "9"}

DigitValue(c) == CharRank(c) - CharRank("0")

\* a < b on Go strings: byte-wise, a proper prefix first.
RECURSIVE StringLess(_, _)
StringLess(a, b) ==
    IF b = <<>> THEN FALSE
    ELSE IF a = <<>> THEN TRUE
    ELSE IF Head(a) = Head(b) THEN StringLess(Tail(a), Tail(b))
    ELSE CharRank(Head(a)) < CharRank(Head(b))

RECURSIVE InsertSorted(_, _)
InsertSorted(sorted, x) ==
    IF sorted = <<>> THEN <<x>>
    ELSE IF StringLess(x, Head(sorted)) THEN <<x>> \o sorted
    ELSE <<Head(sorted)>> \o InsertSorted(Tail(sorted), x)

\* sort.Strings(names)
RECURSIVE sortStrings(_)
sortStrings(names) ==
    IF names = <<>> THEN <<>>
    ELSE InsertSorted(sortStrings(SubSeq(names, 1, Len(names) - 1)),
                      names[Len(names)])

\* strings.Index(str, sep) for a one-byte sep, counted from 1; 0 if absent.
Index(str, sep) ==
    IF \E i \in 1..Len(str) : str[i] = sep
    THEN CHOOSE i \in 1..Len(str) :
             /\ str[i] = sep
             /\ \A j \in 1..(i - 1) : str[j] # sep
    ELSE 0

\* strings.SplitN(str, sep, n) for n > 0.
RECURSIVE SplitN(_, _, _)
SplitN(str, sep, n) ==
    IF n = 1 \/ Index(str, sep) = 0 THEN <<str>>
    ELSE <<SubSeq(str, 1, Index(str, sep) - 1)>>
         \o SplitN(SubSeq(str, Index(str, sep) + 1, Len(str)), sep, n - 1)

\* strings.Split(str, sep)
Split(str, sep) == SplitN(str, sep, Len(str) + 1)

\* strings.Join(parts, sep)
RECURSIVE Join(_, _)
Join(parts, sep) ==
    IF parts = <<>> THEN <<>>
    ELSE IF Len(parts) = 1 THEN parts[1]
    ELSE parts[1] \o <<sep>> \o Join(Tail(parts), sep)

\* strings.TrimLeft(str, "/")
RECURSIVE TrimLeft(_)
TrimLeft(str) ==
    IF str # <<>> /\ Head(str) = "/" THEN TrimLeft(Tail(str)) ELSE str

\* The value of a run of decimal digits.
RECURSIVE DecimalValue(_)
DecimalValue(text) ==
    IF text = <<>> THEN 0
    ELSE 10 * DecimalValue(SubSeq(text, 1, Len(text) - 1))
         + DigitValue(text[Len(text)])

\* strconv.ParseInt(text, 10, 0): an optional sign, then one digit or more.
ParseInt(text) ==
    LET signed == text # <<>> /\ Head(text) \in {"+", "-"}
        digits == IF signed THEN Tail(text) ELSE text
    IN IF digits = <<>> \/ \E i \in 1..Len(digits) : digits[i] \notin Digits
       THEN [ok |-> FALSE, val |-> 0]
       ELSE [ok |-> TRUE,
             val |-> IF signed /\ Head(text) = "-" THEN 0 - DecimalValue(digits)
                     ELSE DecimalValue(digits)]

\* type input struct
input(alias, strip, path) == [Alias |-> alias, Strip |-> strip, Path |-> path]

\* readInputs(in): filepath.ToSlash leaves a path as it is where the
\* separator is the slash.
RECURSIVE readInputs(_)
readInputs(in) ==
    IF in = <<>> THEN [r |-> <<>>, err |-> ""]
    ELSE LET rest == readInputs(SubSeq(in, 1, Len(in) - 1))
             parts == SplitN(in[Len(in)], ":", 3)
         IN IF rest.err # "" THEN rest
            ELSE IF Len(parts) = 1
            THEN [r |-> Append(rest.r, input(<<>>, 0, parts[1])), err |-> ""]
            ELSE IF Len(parts) = 2
            THEN [r |-> Append(rest.r, input(parts[1], 0, parts[2])), err |-> ""]
            ELSE IF ~ParseInt(parts[2]).ok
            THEN [r |-> <<>>, err |-> "cannot parse split"]
            ELSE [r |-> Append(rest.r,
                               input(parts[1], ParseInt(parts[2]).val, parts[3])),
                  err |-> ""]

\* The source tree the generator runs in, from its working directory "/":
\* the regular files, in the order filepath.Walk visits them, and the
\* directories.
SourceFiles ==
    << <<"a", "/", "b">>, <<"a", "/", "c">>, <<"b", "/", "b">>, <<"c">> >>

SourceDirs == {<<"a">>, <<"b">>}

\* The bytes of each source file.
SourceContent(p) ==
    LET i == CHOOSE j \in 1..Len(SourceFiles) : SourceFiles[j] = p
    IN [k \in 1..((i + 1) \div 2) |-> i % 2]

\* The file or directory a path names: empty path elements count for nothing.
Resolve(path) ==
    Join(SelectSeq(Split(path, "/"), LAMBDA part : part # <<>>), "/")

IsSourceFile(p) == \E i \in 1..Len(SourceFiles) : SourceFiles[i] = p

\* os.Stat(path)
Stat(path) ==
    IF IsSourceFile(Resolve(path)) THEN "file"
    ELSE IF Resolve(path) \in SourceDirs THEN "dir"
    ELSE "missing"

\* filepath.Clean(path) of a path without dot elements.
Clean(path) ==
    IF path # <<>> /\ Head(path) = "/" THEN <<"/">> \o Resolve(path)
    ELSE Resolve(path)

\* The regular files filepath.Walk(root, fn) hands to fn, in its order: each
\* path is filepath.Join of the directory and the file's name.
Walk(root) ==
    LET under(p) == /\ Len(p) > Len(Resolve(root)) + 1
                    /\ SubSeq(p, 1, Len(Resolve(root)) + 1) = Resolve(root) \o <<"/">>
        found == SelectSeq(SourceFiles, under)
    IN [i \in 1..Len(found) |->
          Clean(root) \o SubSeq(found[i], Len(Resolve(root)) + 1, Len(found[i]))]

\* The closure addFile of loadFiles, with no ignore pattern: names and files
\* after it, and its error. A negative strip count passes the length test and
\* the slice expression panics.
addFile(base, src, acc) ==
    LET parts == Split(TrimLeft(src), "/")
        stripped == Join(SubSeq(parts, base.Strip + 1, Len(parts)), "/")
        key == IF base.Alias # <<>> THEN base.Alias \o <<"/">> \o stripped
               ELSE stripped
    IN IF Len(parts) < base.Strip
       THEN [acc EXCEPT !.err = "path shorter than strip"]
       ELSE IF base.Strip < 0
       THEN [acc EXCEPT !.err = "panic: slice bounds out of range"]
       ELSE [names |-> Append(acc.names, key),
             files |-> Put(acc.files, key, SourceContent(Resolve(src))),
             err |-> ""]

\* addFile for each path of a walk, until one fails.
RECURSIVE addFiles(_, _, _)
addFiles(base, paths, acc) ==
    IF paths = <<>> \/ acc.err # "" THEN acc
    ELSE addFiles(base, Tail(paths), addFile(base, Head(paths), acc))

\* The loop of loadFiles over the inputs, until one fails.
RECURSIVE loadEach(_, _)
loadEach(inputs, acc) ==
    IF inputs = <<>> \/ acc.err # "" THEN acc
    ELSE LET src == Head(inputs)
         IN IF Stat(src.Path) = "missing"
            THEN [acc EXCEPT !.err = "no such file or directory"]
            ELSE IF Stat(src.Path) = "dir"
            THEN loadEach(Tail(inputs), addFiles(src, Walk(src.Path), acc))
            ELSE loadEach(Tail(inputs), addFile(src, src.Path, acc))

\* loadFiles(inputs, nil): names sorted, or nil, nil and the error.
loadFiles(inputs) ==
    LET acc == loadEach(inputs, [names |-> <<>>, files |-> EmptyMap, err |-> ""])
    IN IF acc.err # "" THEN [names |-> <<>>, files |-> EmptyMap, err |-> acc.err]
       ELSE [acc EXCEPT !.names = sortStrings(acc.names)]

\* The paths, aliases and strip counts a command line is written with.
InputPaths ==
    {<<"c">>, <<"/", "c">>, <<"a", "/", "b">>, <<"a", "/", "/", "b">>,
     <<"b", "/", "b">>, <<"a">>, <<"x">>}

Aliases == {<<>>, <<"s">>}

StripTexts ==
    {<<Chars[CharRank("0") + n]>> : n \in 0..MaxStrip} \cup {<<"-", "1">>, <<"x">>}

\* One argument: path, alias:path or alias:strip:path.
Arguments ==
    InputPaths
    \cup {al \o <<":">> \o p : al \in Aliases, p \in InputPaths}
    \cup {al \o <<":">> \o st \o <<":">> \o p :
            al \in Aliases, st \in StripTexts, p \in InputPaths}

ArgLists == UNION {[1..n -> Arguments] : n \in 0..MaxInputs}

\* Command.Run: inputs, err := readInputs(args)
ReadInputs(args) ==
    /\ gen.stage = "start"
    /\ LET r == readInputs(args)
       IN gen' = [NoGen EXCEPT !.stage = IF r.err = "" THEN "inputs" ELSE "failed",
                               !.args = args, !.inputs = r.r, !.err = r.err]
    /\ UNCHANGED <<fileVars, fsVars>>

\* Command.Run: names, files, err := loadFiles(inputs, ignore)
LoadFiles ==
    /\ gen.stage = "inputs"
    /\ LET r == loadFiles(gen.inputs)
       IN gen' = [gen EXCEPT !.stage = IF r.err = "" THEN "loaded" ELSE "failed",
                             !.names = r.names, !.files = r.files, !.err = r.err]
    /\ UNCHANGED <<fileVars, fsVars>>

\* ------------------------------------------------------------ specification

BackendStep(t) ==
    \/ ByteOpen(t)
    \/ BytePreload(t)
    \/ LazyOpenLock(t)
    \/ ByteLazyLookup(t)
    \/ ByteLazyDecode(t)
    \/ StringLazyLookup(t)
    \/ StringLazyDecode(t)
    \/ LazyStore(t)
    \/ LazyPreloadLock(t)
    \/ LazyPreloadRange(t)
    \/ LazyPreloadDone(t)

BackendCall(t) ==
    \/ \E f \in 1..MaxFS, n \in CallerNames, op \in {"Open", "ReadFile"} :
           CallOpen(t, f, n, op)
    \/ \E f \in 1..MaxFS : CallPreload(t, f)

OverrideStep(t) ==
    \/ \E f \in 1..MaxFS, path \in OverridePaths : CallOverride(t, path, f)
    \/ OverrideOpen(t)
    \/ OverridePreload(t)

\* A real file under "dir" changes, or "dir" itself is removed or restored.
Environment ==
    \/ \E n \in DiskNames, e \in {"absent", "file", "denied"} : FileChange(n, e)
    \/ DirChange

\* Two source files of different content, every payload as generated.
SampleOrig == [k \in StoreKeys |-> IF k = <<"a">> THEN <<0>> ELSE <<MaxByte>>]

Generated == \A k \in StoreKeys : heap[1].data[k] = Encode(orig[k], config)

NoRealFiles == \A n \in DiskNames : files[n] = "absent"

\* The backends under concurrent goroutines: no override layer, no real
\* files, and a store whose first entry is as generated.
ConcInit ==
    /\ Init
    /\ orig = SampleOrig
    /\ NoRealFiles
    /\ heap[1].data[<<"a">>] = Encode(orig[<<"a">>], config)

\* The calls of the concurrent specification: all on the instance built by
\* Config.New.
SharedCall(t) ==
    \/ \E n \in CallerNames, op \in {"Open", "ReadFile"} : CallOpen(t, 1, n, op)
    \/ CallPreload(t, 1)

ConcNext == \E t \in Thread : SharedCall(t) \/ BackendStep(t)

Spec == ConcInit /\ [][ConcNext]_vars

\* Goroutines contending for the lock of one backend whose store is as
\* generated.
LockInit == ConcInit /\ Generated

\* The calls that take the lock: Open by a bare name, and Preload.
LockCall(t) ==
    \/ \E n \in BaseNames : CallOpen(t, 1, n, "Open")
    \/ CallPreload(t, 1)

LockNext == \E t \in Thread : LockCall(t) \/ BackendStep(t)

LockSpec == LockInit /\ [][LockNext]_vars

\* fs.lock.Lock() of goroutine t, in Open or in Preload.
LockAcquire(t) == LazyOpenLock(t) \/ LazyPreloadLock(t)

\* The steps of goroutine t between Lock() and the return that run no decode.
PlainStep(t) ==
    \/ ByteOpen(t)
    \/ BytePreload(t)
    \/ ByteLazyLookup(t)
    \/ ByteLazyDecode(t)
    \/ StringLazyLookup(t)
    \/ LazyStore(t)
    \/ LazyPreloadDone(t)

\* The steps of goroutine t that run readString or readBytes, and the states
\* in which one of them can be taken.
DecodeStep(t) == StringLazyDecode(t) \/ LazyPreloadRange(t)

DecodeReady(t) ==
    \/ pc[t] = "decode" /\ heap[frame[t].fs].kind = "stringLazy"
    \/ pc[t] = "range" /\ frame[t].todo # {}

\* The scheduling of the goroutines: one that can run does run, and one that
\* waits in Lock() gets the lock when it is released again and again (a
\* waiter of sync.RWMutex is handed the lock once it has starved). The third
\* conjunct is WF_vars(DecodeStep(t)) with its ENABLED written as the state
\* predicate it equals.
LockFairness ==
    \A t \in Thread :
        /\ WF_vars(PlainStep(t))
        /\ SF_vars(LockAcquire(t))
        /\ []<>(~DecodeReady(t)) \/ []<><<DecodeStep(t)>>_vars

LockLiveSpec == LockSpec /\ LockFairness

\* One goroutine on the backends, over every store.
SeqInit == Init /\ NoRealFiles

SeqNext == BackendCall(1) \/ BackendStep(1)

SeqSpec == SeqInit /\ [][SeqNext]_vars

\* One goroutine preloading, over every store.
PreloadNext ==
    \/ \E f \in 1..MaxFS : CallPreload(1, f)
    \/ BytePreload(1)
    \/ LazyPreloadLock(1)
    \/ LazyPreloadRange(1)
    \/ LazyPreloadDone(1)

PreloadSpec == SeqInit /\ [][PreloadNext]_vars

\* The override layer over every backend, with the disk changing.
OverrideInit == Init /\ orig = SampleOrig /\ Generated

\* One goroutine on any instance, override layers included.
OverrideNext ==
    \/ BackendCall(1)
    \/ BackendStep(1)
    \/ OverrideStep(1)
    \/ Environment

OverrideSpec == OverrideInit /\ [][OverrideNext]_vars

\* An eager backend over files of up to MaxFileLen bytes, and a caller who
\* opens them and reads, seeks and closes the files it holds.
FileInit ==
    /\ config = [Mode |-> "bytes", Gzip |-> FALSE]
    /\ orig \in [StoreKeys -> FileContents]
    /\ orig[<<"b">>] = <<MaxByte>>
    /\ heap = <<ConfigNew(config, [k \in StoreKeys |-> Encode(orig[k], config)])>>
    /\ dirs = [p \in OverridePaths |-> "missing"]
    /\ files = [n \in DiskNames |-> "absent"]
    /\ pc = [t \in Thread |-> "idle"]
    /\ frame = [t \in Thread |-> NoFrame]
    /\ ret = [t \in Thread |-> NoRet]
    /\ NoFilesHeld
    /\ gen = NoGen

FileNext ==
    \E h \in Handles :
        \/ \E n \in CallerNames : FileOpen(h, 1, n)
        \/ \E k \in 0..MaxFileLen : FileRead(h, k)
        \/ \E offset \in Offsets, whence \in Whences : FileSeek(h, offset, whence)
        \/ FileClose(h)

FileSpec == FileInit /\ [][FileNext]_vars

\* The generator run on every command line within the bounds; no runtime
\* call is made.
GenInit == FileInit /\ orig = SampleOrig

GenNext ==
    \/ \E args \in ArgLists : ReadInputs(args)
    \/ LoadFiles

GenSpec == GenInit /\ [][GenNext]_vars

\* -------------------------------------------------------------------- claims

\* The payload stored under name k is what the generator makes of orig[k].
AsGenerated(k) == heap[1].data[k] = Encode(orig[k], config)

\* The payload decodes under the configuration.
Decodes(cfg, payload) ==
    IF cfg.Mode = "base64" THEN readString(payload, cfg.Gzip).ok
    ELSE readBytes(payload, cfg.Gzip).ok

\* C1: on the backend Config.New builds over a store the generator produced
\* with the same mode and compression flag, Open of every key of the store
\* returns a file whose bytes are the original bytes of that key, with Size
\* their length.
C1_RoundTrip ==
    \A t \in Thread :
        (/\ ret[t].op = "Open"
         /\ ret[t].recv = 1
         /\ Generated
         /\ cleanURLPath(ret[t].arg) \in StoreKeys)
        => /\ ret[t].res.kind = "file"
           /\ ret[t].res.data = orig[cleanURLPath(ret[t].arg)]
           /\ ret[t].res.size = Len(orig[cleanURLPath(ret[t].arg)])

\* C2: on every backend (eager-bytes, lazy-bytes, lazy-text), Open of a path
\* that is not a key of the payload store returns os.ErrNotExist and no file.
C2_AbsentNotFound ==
    \A t \in Thread :
        (/\ ret[t].op = "Open"
         /\ heap[ret[t].recv].kind # "override"
         /\ cleanURLPath(ret[t].arg) \notin DOMAIN heap[ret[t].recv].data)
        => ret[t].res = Err(ErrNotExist)

\* An Open by t of a stored, well-formed entry of the lazy backend, which
\* overlapped another goroutine's Open of the same entry.
ConcurrentOpen(t) ==
    /\ ret[t].op = "Open"
    /\ ret[t].recv = 1
    /\ Lazy(heap[1].kind)
    /\ ret[t].overlap
    /\ cleanURLPath(ret[t].arg) \in StoreKeys
    /\ AsGenerated(cleanURLPath(ret[t].arg))

\* C3: when goroutines call Open(p) concurrently on one lazy backend, for a
\* stored p with a valid payload, every call returns a file, the files hold
\* the same bytes, and the decode routine runs exactly once.
C3_ConcurrentOpenDecodesOnce ==
    \A t \in Thread :
        ConcurrentOpen(t)
        => /\ ret[t].res.kind = "file"
           /\ \A u \in Thread \ {t} :
                (ConcurrentOpen(u) /\ ret[u].arg = ret[t].arg)
                => /\ ret[u].res.data = ret[t].res.data
                   /\ ret[u].decodes + ret[t].decodes = 1

\* C4: on a lazy backend the decode routine runs at most once per path over
\* any number of Opens: a successful Open leaves its bytes in the cache, and
\* all successful Opens of a path return equal bytes.
C4_DecodeAtMostOncePerPath ==
    /\ \A t \in Thread, u \in Thread :
         (/\ t # u
          /\ ret[t].op \in {"Open", "ReadFile"}
          /\ ret[u].op \in {"Open", "ReadFile"}
          /\ ret[t].recv = ret[u].recv
          /\ Lazy(heap[ret[t].recv].kind)
          /\ cleanURLPath(ret[t].arg) = cleanURLPath(ret[u].arg))
         => /\ ret[t].decodes + ret[u].decodes <= 1
            /\ (ret[t].res.kind = ret[u].res.kind /\ ret[t].res.kind \in {"file", "bytes"})
                   => ret[t].res.data = ret[u].res.data
    /\ \A t \in Thread :
         (/\ ret[t].op = "Open"
          /\ Lazy(heap[ret[t].recv].kind)
          /\ ret[t].res.kind = "file")
         => /\ cleanURLPath(ret[t].arg) \in DOMAIN heap[ret[t].recv].loaded
            /\ heap[ret[t].recv].loaded[cleanURLPath(ret[t].arg)] = ret[t].res.data

\* C5: for a lazy backend L and the result E of a successful L.Preload(),
\* ReadFile(p) on L returns what ReadFile(p) on E returns, for every p.
C5_PreloadEquivalence ==
    \A t \in Thread, e \in 1..MaxFS :
        (/\ e <= Len(heap)
         /\ ret[t].op = "ReadFile"
         /\ Lazy(heap[ret[t].recv].kind)
         /\ heap[e].kind = "byte"
         /\ heap[e].from = ret[t].recv)
        => ret[t].res = readAll(OpenResult(heap[e], ret[t].arg))

\* An Open that went through an override layer.
ThroughOverride(t) == ret[t].op = "Open" /\ ret[t].via # 0

\* C6: Override.Open returns the real file, without calling the inner
\* backend's Open, when the file exists under the directory at the call;
\* when it does not exist, it returns what the inner backend's Open returns.
C6_OverridePrecedence ==
    \A t \in Thread :
        ThroughOverride(t)
        => /\ ret[t].real = "file"
                => /\ ret[t].res = RealFile(cleanURLPath(ret[t].arg), RealContent)
                   /\ ~ret[t].inner
           /\ ret[t].real = "absent"
                => /\ ret[t].inner
                   /\ ret[t].res = OpenResult(heap[heap[ret[t].via].inner], ret[t].arg)

\* Witness of C6: the real file is gone and the embedded file is served.
C6_Witness ==
    \E t \in Thread :
        /\ ThroughOverride(t)
        /\ ret[t].real = "absent"
        /\ cleanURLPath(ret[t].arg) \in DiskNames
        /\ ret[t].res.kind = "file"
        /\ ret[t].res.src = "embedded"

\* C7: when os.Open of the real path fails with an error other than "does
\* not exist", Override.Open returns that error and does not call the inner
\* backend's Open.
C7_OtherErrorSurfaced ==
    \A t \in Thread :
        (ThroughOverride(t) /\ ret[t].real = "denied")
        => /\ ret[t].res = Err(ErrPermission)
           /\ ~ret[t].inner

\* Witness of C7: the error is returned for a path the inner backend holds.
C7_Witness ==
    \E t \in Thread :
        /\ ThroughOverride(t)
        /\ ret[t].real = "denied"
        /\ cleanURLPath(ret[t].arg) \in DOMAIN heap[heap[ret[t].via].inner].data
        /\ ret[t].res.kind = "err"

\* A finished Override(path, fs) whose path was missing or not a directory.
OverrideOfBadPath(t) == ret[t].op = "Override" /\ ret[t].real # "dir"

\* C8 as stated: Override(path, fs) returns an error and no filesystem when
\* path does not exist or is not a directory, for every fs.
C8_BadPathAlwaysFails ==
    \A t \in Thread :
        OverrideOfBadPath(t) => ret[t].res.kind = "err" /\ ret[t].res.fs = 0

\* C8 amended: Override(path, fs) returns an error and no filesystem when
\* path does not exist or is not a directory and fs is not an override
\* layer; when fs is an override layer it returns fs and no error.
C8_BadPathFailsUnlessOverride ==
    \A t \in Thread :
        OverrideOfBadPath(t)
        => IF heap[ret[t].recv].kind = "override"
           THEN ret[t].res = FSRef(ret[t].recv)
           ELSE ret[t].res.kind = "err" /\ ret[t].res.fs = 0

\* Witness of C8: Override of a bad path over a backend has failed.
C8_Witness ==
    \E t \in Thread :
        /\ OverrideOfBadPath(t)
        /\ heap[ret[t].recv].kind # "override"
        /\ ret[t].res.kind = "err"

\* No override layer wraps an override layer.
NoDoubleWrap ==
    \A i \in 1..MaxFS :
        (i <= Len(heap) /\ heap[i].kind = "override")
        => heap[heap[i].inner].kind # "override"

\* Override of an override layer has returned that layer.
OverrideIsIdempotent ==
    \A t \in Thread :
        (ret[t].op = "Override" /\ heap[ret[t].recv].kind = "override")
        => ret[t].res = FSRef(ret[t].recv)

\* No step changes the directory or the inner backend of an override layer.
LayersKept ==
    \A i \in 1..MaxFS :
        (i <= Len(heap) /\ heap[i].kind = "override")
        => /\ i <= Len(heap')
           /\ heap'[i] = heap[i]

\* C9: Override of an fs that is an override layer returns that instance,
\* its directory and inner backend unchanged, and after any Override and
\* Preload calls no override layer has an override layer as inner backend.
C9_OverrideIdempotent ==
    /\ [](NoDoubleWrap /\ OverrideIsIdempotent)
    /\ [][LayersKept]_vars

\* Witness of C9: Override was applied to an override layer.
C9_Witness ==
    \E t \in Thread :
        /\ ret[t].op = "Override"
        /\ heap[ret[t].recv].kind = "override"
        /\ ret[t].res.kind = "fs"

\* C10: Preload of a lazy backend returns an eager-bytes backend with the
\* store's key set when every entry decodes, and returns an error and no
\* filesystem when some entry does not, whatever the order of the entries.
C10_PreloadAllOrNothing ==
    \A t \in Thread :
        (/\ ret[t].op = "Preload"
         /\ ret[t].via = 0
         /\ Lazy(heap[ret[t].recv].kind))
        => LET fs == heap[ret[t].recv]
           IN IF \A k \in DOMAIN fs.data : Decodes(fs.config, fs.data[k])
              THEN /\ ret[t].res.kind = "fs"
                   /\ heap[ret[t].res.fs].kind = "byte"
                   /\ DOMAIN heap[ret[t].res.fs].data = DOMAIN fs.data
              ELSE /\ ret[t].res.kind = "err"
                   /\ ret[t].res.fs = 0
                   /\ \A e \in 1..MaxFS :
                        e <= Len(heap) => heap[e].from # ret[t].recv

\* Witness of C10: a Preload failed on an entry after decoding another.
C10_Witness ==
    \E t \in Thread :
        /\ ret[t].op = "Preload"
        /\ Lazy(heap[ret[t].recv].kind)
        /\ ret[t].res.kind = "err"
        /\ ret[t].decodes >= 1


\* No step changes the payload store or the decode cache of a lazy backend.
LazyKept ==
    \A i \in 1..MaxFS :
        (i <= Len(heap) /\ Lazy(heap[i].kind))
        => /\ heap'[i].data = heap[i].data
           /\ heap'[i].loaded = heap[i].loaded
           /\ heap'[i].loadedNil = heap[i].loadedNil

\* A finished Preload of a lazy backend left the receiver as Config.New built
\* it, and on success returned another instance, an eager one.
PreloadLeftReceiver ==
    \A t \in Thread :
        (/\ ret[t].op = "Preload"
         /\ ret[t].via = 0
         /\ Lazy(heap[ret[t].recv].kind))
        => /\ heap[ret[t].recv] = ConfigNew(config, heap[ret[t].recv].data)
           /\ \A n \in CallerNames :
                OpenResult(heap[ret[t].recv], n)
                    = OpenResult(ConfigNew(config, heap[ret[t].recv].data), n)
           /\ ret[t].res.kind = "fs"
                => /\ ret[t].res.fs # ret[t].recv
                   /\ heap[ret[t].res.fs].kind = "byte"

\* C11: Preload never mutates its receiver: the payload store and the decode
\* cache of a lazy backend are the same before and after Preload, on success
\* and on failure, and on success the eager backend returned is a new
\* instance, so Opens on the receiver behave after Preload as before.
C11_PreloadLeavesReceiver ==
    /\ []PreloadLeftReceiver
    /\ [][LazyKept]_vars

\* Witness of C11: a Preload of a lazy backend has succeeded.
C11_Witness ==
    \E t \in Thread :
        /\ ret[t].op = "Preload"
        /\ Lazy(heap[ret[t].recv].kind)
        /\ ret[t].res.kind = "fs"
        /\ heap[ret[t].res.fs].from = ret[t].recv


\* The call returned one of the decoders' errors.
IsDecodeError(v) == v.kind = "err" /\ v.err \in DecodeErrors

\* The payload stored under k is a cut or damaged form of the generator's
\* output for orig[k].
MalformedEntry(k) ==
    heap[1].data[k] \in Malformed(Encode(orig[k], config), config)

VariantOf(cfg) ==
    IF cfg.Mode = "base64" THEN "stringLazy"
    ELSE IF cfg.Gzip THEN "byteLazy" ELSE "byte"

\* C14: Config.New selects the variant from the configuration alone (base64
\* gives the lazy-text backend, bytes with gzip the lazy-bytes backend, bytes
\* without gzip the eager backend), and the backend it returns is usable at
\* once: Open of every path of the store returns a file.
C14_NewSelectsUsableBackend ==
    /\ heap[1].kind = VariantOf(config)
    /\ \A t \in Thread :
         (/\ ret[t].op = "Open"
          /\ ret[t].recv = 1
          /\ cleanURLPath(ret[t].arg) \in StoreKeys
          /\ AsGenerated(cleanURLPath(ret[t].arg)))
         => ret[t].res.kind = "file"


\* Goroutine t is between Lock and Unlock of the instance its call is on: at
\* the cache lookup, the decode, the cache write, or in Preload's loop.
Critical(t) == pc[t] \in {"lookup", "decode", "store", "range"}

\* C15: a lazy backend has one lock, held over the whole lookup, decode and
\* insert of Open and over the whole of Preload: no two goroutines are
\* between Lock and Unlock of one instance at once, and every access to the
\* decode cache is made by the goroutine holding the lock.
C15_LockHeld ==
    /\ \A t \in Thread :
         Critical(t) => /\ Lazy(heap[frame[t].fs].kind)
                        /\ heap[frame[t].fs].lock = t
    /\ \A t \in Thread, u \in Thread :
         (t # u /\ Critical(t) /\ Critical(u)) => frame[t].fs # frame[u].fs

\* Witness of C15: one goroutine is at the cache write while another waits
\* at Lock for the same instance.
C15_Witness ==
    \E t \in Thread, u \in Thread :
        /\ t # u
        /\ pc[t] = "store"
        /\ pc[u] = "open"
        /\ frame[u].fs = frame[t].fs
        /\ heap[frame[t].fs].lock = t


\* The finished Open or ReadFile of t ran the decode routine of a lazy
\* backend and the routine returned bytes.
DecodedOk(t) ==
    LET fs == heap[ret[t].recv]
        name == cleanURLPath(ret[t].arg)
    IN /\ ret[t].op \in {"Open", "ReadFile"}
       /\ Lazy(fs.kind)
       /\ ret[t].decodes >= 1
       /\ IF fs.kind = "stringLazy"
          THEN name \in DOMAIN fs.data /\ readString(fs.data[name], fs.config.Gzip).ok
          ELSE Gunzip(<<>>).ok

\* C16: in every state of a lazy backend a path of the store that is absent
\* from the decode cache has never been decoded by the instance: every
\* successful decode of a path is recorded in the cache.
C16_DecodedIsCached ==
    \A t \in Thread :
        DecodedOk(t)
        => cleanURLPath(ret[t].arg) \in DOMAIN heap[ret[t].recv].loaded


\* C17: on a cache miss byteLazyFileSystem.Open checks that the path is a key
\* of the compressed-data map before it decompresses: the decompression
\* routine is never run for a path that is absent from the store.
C17_PresenceCheckedBeforeDecode ==
    \A t \in Thread :
        (/\ ret[t].op \in {"Open", "ReadFile"}
         /\ heap[ret[t].recv].kind = "byteLazy"
         /\ cleanURLPath(ret[t].arg) \notin DOMAIN heap[ret[t].recv].data)
        => ret[t].decodes = 0


\* A finished Preload of an override layer.
LayerPreload(t) == ret[t].op = "Preload" /\ ret[t].via # 0

\* Preload of the backend in succeeds: an eager backend, or a lazy one whose
\* entries all decode.
InnerPreloads(in) ==
    \/ in.kind = "byte"
    \/ \A k \in DOMAIN in.data : Decodes(in.config, in.data[k])

\* The value v is a new override layer over the directory of ov whose inner
\* backend is the eager backend Preload of ov's inner backend gives.
Rewrapped(v, ov, id) ==
    /\ v.kind = "fs"
    /\ v.fs # id
    /\ heap[v.fs].kind = "override"
    /\ heap[v.fs].path = ov.path
    /\ LET in == heap[ov.inner]
           pre == heap[heap[v.fs].inner]
       IN /\ pre.kind = "byte"
          /\ DOMAIN pre.data = DOMAIN in.data
          /\ IF in.kind = "byte" THEN heap[v.fs].inner = ov.inner
             ELSE pre.from = ov.inner

EagerKept ==
    \A i \in 1..MaxFS :
        (i <= Len(heap) /\ heap[i].kind = "byte") => heap'[i] = heap[i]

\* A finished Preload of an eager backend returned its receiver.
EagerPreloadIsIdentity ==
    \A t \in Thread :
        (/\ ret[t].op = "Preload"
         /\ ret[t].via = 0
         /\ heap[ret[t].recv].kind = "byte")
        => ret[t].res = FSRef(ret[t].recv)

\* C19: Preload of an eager backend always succeeds and returns the receiver
\* itself, its data unchanged; so Preload of the result of a successful
\* Preload of a lazy backend is the identity.
C19_EagerPreloadIdentity ==
    /\ []EagerPreloadIsIdentity
    /\ [][EagerKept]_vars

\* Witness of C19: the backend a lazy Preload returned was preloaded again.
C19_Witness ==
    \E t \in Thread :
        /\ ret[t].op = "Preload"
        /\ heap[ret[t].recv].kind = "byte"
        /\ heap[ret[t].recv].from # 0
        /\ ret[t].res.kind = "fs"


\* The file the last operation was on.
LastFile == handles[last.h]

\* The read after the seek to 0 returned the bytes the first read returned,
\* the first k bytes of the file.
RereadSame ==
    (rewind.stage = "reread" /\ rewind.k <= Len(LastFile.s))
    => /\ last.out = rewind.first
       /\ last.out = Take(LastFile.s, rewind.k)

\* A Seek relative to the cursor or to the end has put the cursor at
\* cursor + offset or len(B) + offset, and returned that position.
SeekPositions ==
    (last.op = "Seek" /\ last.whence \in {SeekStart, SeekCurrent, SeekEnd})
    => LET base == IF last.whence = SeekStart THEN 0
                   ELSE IF last.whence = SeekCurrent THEN last.from
                   ELSE Len(LastFile.s)
       IN IF base + last.arg >= 0
          THEN /\ last.err = ""
               /\ LastFile.i = base + last.arg
               /\ last.pos = base + last.arg
          ELSE /\ last.err # ""
               /\ LastFile.i = last.from

\* C13: for a file over bytes B and 0 <= k <= len(B), after a read of k
\* bytes and a seek to absolute offset 0 the next read of k bytes returns
\* B[0..k), the bytes of the first read; Seek relative to the cursor and to
\* the end puts the cursor at cursor + offset and len(B) + offset.
C13_SeekSemantics == RereadSame /\ SeekPositions

\* Witness of C13: a file of at least two bytes was read whole, sought to 0
\* and read again.
C13_Witness ==
    /\ rewind.stage = "reread"
    /\ rewind.k >= 2
    /\ rewind.k = Len(LastFile.s)
    /\ last.out = LastFile.s

\* A step on one file leaves the other files and every backend as they were.
OtherFilesKept ==
    /\ \A g \in Handles \ {last'.h} : handles'[g] = handles[g]
    /\ heap' = heap

\* An Open has put a file with its cursor at 0 in the variable, and a Read
\* has returned the store's bytes from the file's own cursor on.
OwnCursor ==
    /\ last.op = "Open" => LastFile.i = 0
    /\ last.op = "Read"
         => LET B == heap[1].data[LastFile.name]
            IN /\ last.out = SubSeq(B, last.from + 1, last.from + Len(last.out))
               /\ LastFile.i = last.from + Len(last.out)
               /\ Len(last.out) = IF last.from >= Len(B) THEN 0
                                  ELSE Min(last.arg, Len(B) - last.from)

TwoSpellings(t, u) ==
    /\ t # u
    /\ ret[t].op = "Open"
    /\ ret[u].op = "Open"
    /\ ret[t].recv = 1
    /\ ret[u].recv = 1
    /\ ret[t].arg # ret[u].arg
    /\ cleanURLPath(ret[t].arg) = cleanURLPath(ret[u].arg)

\* C21: Open strips all leading slashes before the lookup and before the
\* cache access: on every backend, Open of a path with leading slashes has
\* the outcome of Open of the bare path, and both use one cache entry, so a
\* lazy backend decodes the path once across the two spellings.
C21_SpellingsShareCacheEntry ==
    \A t \in Thread, u \in Thread :
        TwoSpellings(t, u)
        => /\ ret[t].res = ret[u].res
           /\ (/\ Lazy(heap[1].kind)
               /\ cleanURLPath(ret[t].arg) \in StoreKeys
               /\ AsGenerated(cleanURLPath(ret[t].arg)))
              => ret[t].decodes + ret[u].decodes = 1


\* This step is the return of goroutine t's Open (or of the Open inside its
\* ReadFile) on a lazy backend with an error.
FailedLazyOpen(t) ==
    /\ pc[t] \in {"lookup", "decode", "store"}
    /\ frame[t].op \in {"Open", "ReadFile"}
    /\ Lazy(heap[frame[t].fs].kind)
    /\ pc'[t] = "idle"
    /\ ret'[t].res.kind = "err"

\* C23: an Open on a lazy backend that fails, with NotFound or with a decode
\* error, leaves the decode cache as it was before the call: no entry is
\* inserted for the failing path and no other entry changes.
C23_FailedOpenKeepsCache ==
    [][\A t \in Thread :
         FailedLazyOpen(t)
         => /\ heap'[frame[t].fs].loaded = heap[frame[t].fs].loaded
            /\ heap'[frame[t].fs].loadedNil = heap[frame[t].fs].loadedNil]_vars

\* An Open of a malformed payload has returned its decode error and the
\* receiver's cache has no entry.
C23_Witness ==
    \E t \in Thread :
        /\ ret[t].op = "Open"
        /\ heap[ret[t].fs].kind = "stringLazy"
        /\ ret[t].decodes = 1
        /\ IsDecodeError(ret[t].res)
        /\ heap[ret[t].fs].loadedNil
        /\ DOMAIN heap[ret[t].fs].loaded = {}


\* No goroutine is inside a call on instance f.
NoCallOn(f) == \A t \in Thread : pc[t] = "idle" \/ frame[t].fs # f

NoDuplicate(names) ==
    \A i \in 1..Len(names), j \in 1..Len(names) : names[i] = names[j] => i = j

\* C22: for every list of inputs, with any alias and strip count, on which
\* loadFiles succeeds, the names it returns hold no duplicate, no name starts
\* with "/", and the names are exactly the keys of the files map it returns.
C22_NamesUniqueAndRelative ==
    gen.stage = "loaded"
    => /\ NoDuplicate(gen.names)
       /\ \A i \in 1..Len(gen.names) :
            gen.names[i] = <<>> \/ Head(gen.names[i]) # "/"
       /\ {gen.names[i] : i \in 1..Len(gen.names)} = DOMAIN gen.files

=============================================================================
